---- MODULE Spec2Model ----
(***************************************************************************)
(* Model of pomodoro_timer.py: the interruptible countdown (run_timer,     *)
(* run_timer_simple), the session log (log_session), the Pomodoro cycle    *)
(* controller (run_pomodoro_cycle), the statistics engine (compute_stats)  *)
(* and the screens that start timers and edit the configuration.           *)
(*                                                                         *)
(* Every duration is an integer number of time units of 1/300 minute       *)
(* (0.2 s): one second is 5 units and 0.01 minute is 3 units, so both the  *)
(* one-second polling of the countdown and the two-decimal rounding of     *)
(* log_session are exact.  The clock is idealised: time.sleep(1) advances  *)
(* it by exactly one second and the statements of the countdown loop take  *)
(* no time.  A stop signal can arrive whenever the SIGINT handler of the   *)
(* engine is installed, also while an except clause is running.            *)
(***************************************************************************)
EXTENDS Integers, Sequences, FiniteSets, TLC

VARIABLES
    log,              \* sessions.json: the sequence of session records
    config,           \* the configuration loaded from config.json
    pc,               \* control point of the program
    caller,           \* who called run_timer (where it returns to)
    session_type,     \* run_timer argument
    minutes,          \* run_timer argument (whole minutes)
    elapsed,          \* run_timer: time.time() - start_time, in units
    interrupted,      \* run_timer local (lines 191, 256)
    actual_minutes,   \* run_timer local (line 260), in units
    rt_choice,        \* run_timer local `choice` (line 285)
    depth,            \* number of nested run_timer frames below the first (Restart)
    s_minutes,        \* run_timer_simple argument `minutes` (the remainder), in units
    s_elapsed,        \* run_timer_simple: time.time() - start_time, in units
    result,           \* value returned by the last run_timer call ("True" or "False"),
                      \* "none" while it is running
    session_count,    \* run_pomodoro_cycle local
    long_break_every, \* run_pomodoro_cycle local
    choice,           \* run_pomodoro_cycle local: the last answer to a prompt
    call_len,         \* history: Len(log) when the current start operation was called
    focus_done,       \* history: focus timers that returned True since the last long-break offer
    reset_len,        \* history: Len(log) when session_count was last set to 0
    stops,            \* history: stop signals delivered so far
    runs,             \* history: start operations called so far
    stop_times,       \* environment: the instants (whole seconds into a countdown)
                      \* at which the user may press Ctrl+C
    now,              \* the wall clock: datetime.now() as [date, hour]
    stats,            \* screen_stats local: the value returned by compute_stats
    edits,            \* history: values stored through screen_config so far
    todays,           \* history: what date.today() returned to the last compute_stats,
                      \* in the loop of the current streak and in the loop of the week
    handler,          \* the process-wide SIGINT handler: signal.getsignal(signal.SIGINT)
    original_handler  \* local of the innermost run_timer / run_timer_simple frame

vars == <<log, config, pc, caller, session_type, minutes, elapsed, interrupted,
          actual_minutes, rt_choice, depth, s_minutes, s_elapsed, result,
          session_count, long_break_every, choice, call_len, focus_done, reset_len,
          stops, runs, stop_times, now, stats, edits, todays, handler,
          original_handler>>

env_vars == <<now, stats, edits, todays>>
timer_vars == <<session_type, minutes, elapsed, interrupted, actual_minutes,
                rt_choice, depth, s_minutes, s_elapsed>>
cycle_vars == <<session_count, long_break_every, choice>>
sig_vars == <<handler, original_handler>>

----------------------------------------------------------------------------
(* Bounds of the model *)
MaxMinutes == 1      \* largest duration setting, in minutes
MaxStops == 2        \* stop signals delivered in one behaviour
MaxDepth == 2        \* Restart choices in a row (recursion depth of run_timer)
MaxRuns == 3         \* timer runs started in one cycle
MaxEvery == 2        \* largest sessions_before_long_break

(* Units *)
Second == 5                       \* time.sleep(1) advances the clock by 5 units
Minute == 60 * Second             \* total_seconds = minutes * 60
Hundredth == 3                    \* 0.01 minute, the grain of round(x, 2)
ResumeThreshold == Minute \div 10 \* the 0.1 minute of `remaining_minutes > 0.1`

SESSION_TYPES == {"focus", "short", "long"}

----------------------------------------------------------------------------
(* Calendar dates.  A date is the integer yyyymmdd, the digits of its ISO   *)
(* form "yyyy-mm-dd": comparing two such integers is comparing the strings. *)

Iso(y, m, d) == y * 10000 + m * 100 + d
YearOf(iso) == iso \div 10000
MonthOf(iso) == (iso \div 100) % 100
DayOf(iso) == iso % 100

IsLeap(y) == (y % 4 = 0 /\ y % 100 # 0) \/ y % 400 = 0
DaysInMonth(y, m) ==
    CASE m \in {4, 6, 9, 11} -> 30
      [] m = 2 -> (IF IsLeap(y) THEN 29 ELSE 28)
      [] OTHER -> 31

\* (d - timedelta(days=1)).isoformat()
MinusOneDay(iso) ==
    IF DayOf(iso) > 1 THEN iso - 1
    ELSE IF MonthOf(iso) > 1
         THEN Iso(YearOf(iso), MonthOf(iso) - 1, DaysInMonth(YearOf(iso), MonthOf(iso) - 1))
         ELSE Iso(YearOf(iso) - 1, 12, 31)

\* (d + timedelta(days=1)).isoformat()
PlusOneDay(iso) ==
    IF DayOf(iso) < DaysInMonth(YearOf(iso), MonthOf(iso)) THEN iso + 1
    ELSE IF MonthOf(iso) < 12
         THEN Iso(YearOf(iso), MonthOf(iso) + 1, 1)
         ELSE Iso(YearOf(iso) + 1, 1, 1)

\* (d - timedelta(days=n)).isoformat()
RECURSIVE MinusDays(_, _)
MinusDays(iso, n) == IF n = 0 THEN iso ELSE MinusDays(MinusOneDay(iso), n - 1)

\* the dates first, first + 1 day, ..., n of them
RECURSIVE DateRange(_, _)
DateRange(first, n) ==
    IF n = 0 THEN {} ELSE {first} \cup DateRange(PlusOneDay(first), n - 1)

\* the number of the day of a date, counted from 0001-01-01
Ordinal(iso) ==
    LET y == YearOf(iso)
        before == y - 1
        MonthStart[m \in 1..12] ==
            IF m = 1 THEN 0 ELSE MonthStart[m - 1] + DaysInMonth(y, m - 1)
    IN 365 * before + (before \div 4) - (before \div 100) + (before \div 400)
       + MonthStart[MonthOf(iso)] + DayOf(iso)

\* the day and the hour at which the model's sessions are run
Today == Iso(2024, 3, 2)
StartClock == [date |-> Today, hour |-> 9]

\* round(actual_minutes, 2) of log_session: the nearest multiple of 0.01 minute
\* (no tie is possible: a whole number of seconds is never k + 0.5 hundredths)
Round2(x) == Hundredth * ((2 * x + Hundredth) \div (2 * Hundredth))

\* log_session: load the log, append one record, save it
LogSession(l, type, planned, actual, completed) ==
    Append(l, [type |-> type, planned_minutes |-> planned,
               actual_minutes |-> Round2(actual), completed |-> completed,
               started_at |-> now])

\* total_seconds = minutes * 60
TotalSeconds(m) == m * Minute

\* a countdown that stops two seconds late
RemainingLate(total, el) == total + 2 * Second - el

\* remaining = total_seconds - elapsed
Remaining(total, el) == total - el

\* remaining_minutes = (total_seconds - actual_minutes * 60) / 60
RemainingMinutes(m, actual) == TotalSeconds(m) - actual

\* `if remaining_minutes > 0.1` of the Resume branch
WorthResuming(rem) == rem > ResumeThreshold

\* the SIGINT handler is installed and the user presses Ctrl+C at this instant
StopDeliverable(el) ==
    /\ stops < MaxStops
    /\ el \div Second \in stop_times

----------------------------------------------------------------------------
(* run_timer *)

\* the default handler of SIGINT, which raises KeyboardInterrupt
DefaultHandler == "default_int_handler"

\* original_handler = signal.getsignal(signal.SIGINT);
\* signal.signal(signal.SIGINT, _handler)
Install ==
    /\ original_handler' = handler
    /\ handler' = "_handler"

\* finally: signal.signal(signal.SIGINT, original_handler)
Restore ==
    /\ handler' = original_handler
    /\ UNCHANGED original_handler

\* the same call of signal.signal while a further SIGINT is pending:
\* signal.signal runs the pending handlers before it changes anything, so
\* _handler raises TimerInterrupt out of the call and stays installed; when
\* the further SIGINT was taken before the finally clause, the call restores
RestoreInterrupted ==
    /\ handler' \in {original_handler, handler}
    /\ UNCHANGED original_handler

\* the call of run_timer(type, m) by `who`
CallTimer(who, type, m) ==
    /\ pc' = "rt_loop"
    /\ caller' = who
    /\ session_type' = type
    /\ minutes' = m
    /\ elapsed' = 0
    /\ interrupted' = FALSE
    /\ actual_minutes' = 0
    /\ rt_choice' = "none"
    /\ depth' = 0
    /\ s_minutes' = 0
    /\ s_elapsed' = 0
    /\ result' = "none"
    /\ call_len' = Len(log)
    /\ runs' = runs + 1
    /\ Install

\* `return v` of the outermost frame
Return(v) ==
    /\ pc' = "returned"
    /\ result' = (IF v THEN "True" ELSE "False")
    /\ focus_done' = IF session_type = "focus" /\ v /\ caller = "cycle_focus"
                     THEN focus_done + 1 ELSE focus_done
    /\ reset_len' = reset_len

\* one iteration of the countdown loop: remaining > 0, draw the frame, sleep(1)
RtTick ==
    /\ pc = "rt_loop"
    /\ Remaining(TotalSeconds(minutes), elapsed) > 0
    /\ elapsed' = elapsed + Second
    /\ UNCHANGED <<log, config, pc, caller, session_type, minutes, interrupted,
                   actual_minutes, rt_choice, depth, s_minutes, s_elapsed, result,
                   cycle_vars, call_len, focus_done, reset_len, stops, runs, stop_times, env_vars, sig_vars>>

\* SIGINT during the countdown: _handler raises TimerInterrupt, the except
\* clause sets interrupted, the finally clause restores the handler, and
\* line 260 computes actual_minutes; the prompt is shown.  The signal is
\* taken while the loop is sleeping (remaining > 0): with the idealised
\* clock the statements between the last test and the finally clause take
\* no time
RtStop ==
    /\ pc = "rt_loop"
    /\ Remaining(TotalSeconds(minutes), elapsed) > 0
    /\ StopDeliverable(elapsed)
    /\ interrupted' = TRUE
    /\ actual_minutes' = elapsed
    /\ stops' = stops + 1
    /\ pc' = "rt_prompt"
    /\ Restore
    /\ UNCHANGED <<log, config, caller, session_type, minutes, elapsed, rt_choice,
                   depth, s_minutes, s_elapsed, result, cycle_vars, call_len,
                   focus_done, reset_len, runs, stop_times, env_vars>>

\* remaining <= 0: break, log the completed session, return True
RtComplete ==
    /\ pc = "rt_loop"
    /\ ~(Remaining(TotalSeconds(minutes), elapsed) > 0)
    /\ actual_minutes' = elapsed
    /\ log' = LogSession(log, session_type, TotalSeconds(minutes), elapsed, TRUE)
    /\ Return(TRUE)
    /\ Restore
    /\ UNCHANGED <<config, caller, session_type, minutes, elapsed, interrupted,
                   rt_choice, depth, s_minutes, s_elapsed, cycle_vars, call_len,
                   stops, runs, stop_times, env_vars>>

\* choice "1": resume; run_timer_simple runs the remainder when it is more
\* than 0.1 minute, otherwise run_timer returns True at once
RtResume ==
    /\ pc = "rt_prompt"
    /\ rt_choice' = "1"
    /\ IF WorthResuming(RemainingMinutes(minutes, actual_minutes))
       THEN /\ s_minutes' = RemainingMinutes(minutes, actual_minutes)
            /\ s_elapsed' = 0
            /\ pc' = "rts_loop"
            /\ Install
            /\ UNCHANGED <<result, focus_done, reset_len>>
       ELSE /\ Return(TRUE)
            /\ UNCHANGED <<s_minutes, s_elapsed, sig_vars>>
    /\ UNCHANGED <<log, config, caller, session_type, minutes, elapsed, interrupted,
                   actual_minutes, depth, cycle_vars, call_len, stops, runs,
                   stop_times, env_vars>>

\* a Restart that first saves the discarded attempt
RtRestartSavesPartial ==
    /\ pc = "rt_prompt"
    /\ depth < MaxDepth
    /\ rt_choice' = "none"
    /\ depth' = depth + 1
    /\ elapsed' = 0
    /\ interrupted' = FALSE
    /\ actual_minutes' = 0
    /\ pc' = "rt_loop"
    /\ log' = LogSession(log, session_type, TotalSeconds(minutes), actual_minutes, FALSE)
    /\ Install
    /\ UNCHANGED <<config, caller, session_type, minutes, s_minutes, s_elapsed,
                   result, cycle_vars, call_len, focus_done, reset_len, stops, runs, stop_times, env_vars>>

\* choice "2": restart; return run_timer(session_type, minutes, label)
RtRestart ==
    /\ pc = "rt_prompt"
    /\ depth < MaxDepth
    /\ rt_choice' = "none"
    /\ depth' = depth + 1
    /\ elapsed' = 0
    /\ interrupted' = FALSE
    /\ actual_minutes' = 0
    /\ pc' = "rt_loop"
    /\ Install
    /\ UNCHANGED <<log, config, caller, session_type, minutes, s_minutes, s_elapsed,
                   result, cycle_vars, call_len, focus_done, reset_len, stops, runs, stop_times, env_vars>>

\* an Abandon that saves the partial session as completed
RtAbandonMarksCompleted ==
    /\ pc = "rt_prompt"
    /\ \E c \in {"3", ""} : rt_choice' = c
    /\ log' = LogSession(log, session_type, TotalSeconds(minutes), actual_minutes, TRUE)
    /\ Return(FALSE)
    /\ UNCHANGED sig_vars
    /\ UNCHANGED <<config, caller, session_type, minutes, elapsed, interrupted,
                   actual_minutes, depth, s_minutes, s_elapsed, cycle_vars, call_len,
                   stops, runs, stop_times, env_vars>>

\* any other answer ("3", the empty string, Ctrl+C at the prompt, ...):
\* save the partial session and return False
RtAbandon ==
    /\ pc = "rt_prompt"
    /\ \E c \in {"3", ""} : rt_choice' = c
    /\ log' = LogSession(log, session_type, TotalSeconds(minutes), actual_minutes, FALSE)
    /\ Return(FALSE)
    /\ UNCHANGED sig_vars
    /\ UNCHANGED <<config, caller, session_type, minutes, elapsed, interrupted,
                   actual_minutes, depth, s_minutes, s_elapsed, cycle_vars, call_len,
                   stops, runs, stop_times, env_vars>>

----------------------------------------------------------------------------
(* run_timer_simple *)

\* one iteration of the resumed countdown
RtsTick ==
    /\ pc = "rts_loop"
    /\ Remaining(s_minutes, s_elapsed) > 0
    /\ s_elapsed' = s_elapsed + Second
    /\ UNCHANGED <<log, config, pc, caller, session_type, minutes, elapsed,
                   interrupted, actual_minutes, rt_choice, depth, s_minutes, result,
                   cycle_vars, call_len, focus_done, reset_len, stops, runs, stop_times, env_vars, sig_vars>>

\* what load_sessions can read back from a sessions.json that save_sessions
\* was cut off writing (opened with "w", json.dump not finished): nothing
Truncated(l) == <<>>

\* SIGINT during the resumed countdown: _handler raises TimerInterrupt and the
\* except clause is entered; the handler stays installed until the finally
\* clause, which runs after the except clause
RtsStop ==
    /\ pc = "rts_loop"
    /\ Remaining(s_minutes, s_elapsed) > 0
    /\ StopDeliverable(s_elapsed)
    /\ stops' = stops + 1
    /\ pc' = "rts_except"
    /\ UNCHANGED <<log, config, caller, session_type, minutes, elapsed, interrupted,
                   actual_minutes, rt_choice, depth, s_minutes, s_elapsed, result,
                   cycle_vars, call_len, focus_done, reset_len, runs, stop_times, env_vars, sig_vars>>

\* the except clause logs the segment as not completed, without any prompt
\* about resuming, and waits at "Press Enter..."
RtsSave ==
    /\ pc = "rts_except"
    /\ log' = LogSession(log, session_type, s_minutes, s_elapsed, FALSE)
    /\ pc' = "rts_enter"
    /\ UNCHANGED <<config, caller, session_type, minutes, elapsed, interrupted,
                   actual_minutes, rt_choice, depth, s_minutes, s_elapsed, result,
                   cycle_vars, call_len, focus_done, reset_len, stops, runs, stop_times, env_vars, sig_vars>>

\* Enter is pressed: return False; the finally clause restores the handler
RtsStopped ==
    /\ pc = "rts_enter"
    /\ Return(FALSE)
    /\ Restore
    /\ UNCHANGED <<log, config, caller, session_type, minutes, elapsed, interrupted,
                   actual_minutes, rt_choice, depth, s_minutes, s_elapsed, cycle_vars,
                   call_len, stops, runs, stop_times, env_vars>>

\* a second SIGINT while the except clause of run_timer_simple is running:
\* _handler raises TimerInterrupt inside log_session (before the file is
\* opened, or while json.dump is writing it) or inside input_prompt, which
\* catches only EOFError and KeyboardInterrupt; nothing up to main catches it
RtsStopAgain ==
    /\ pc \in {"rts_except", "rts_enter"}
    /\ stops' = stops + 1
    /\ log' \in (IF pc = "rts_except" THEN {log, Truncated(log)} ELSE {log})
    /\ pc' = "TimerInterrupt"
    /\ RestoreInterrupted
    /\ UNCHANGED <<config, caller, session_type, minutes, elapsed, interrupted,
                   actual_minutes, rt_choice, depth, s_minutes, s_elapsed, result,
                   cycle_vars, call_len, focus_done, reset_len, runs, stop_times, env_vars>>

\* a second SIGINT in run_timer between the raise of TimerInterrupt and the
\* finally clause that restores the handler: it is raised inside the except
\* or finally clause and nothing catches it
RtStopAgain ==
    /\ pc = "rt_loop"
    /\ Remaining(TotalSeconds(minutes), elapsed) > 0
    /\ StopDeliverable(elapsed)
    /\ stops' = stops + 2
    /\ pc' = "TimerInterrupt"
    /\ RestoreInterrupted
    /\ UNCHANGED <<log, config, caller, session_type, minutes, elapsed, interrupted,
                   actual_minutes, rt_choice, depth, s_minutes, s_elapsed, result,
                   cycle_vars, call_len, focus_done, reset_len, runs, stop_times, env_vars>>

\* the resumed countdown reaches zero: log the segment as completed, return True
RtsComplete ==
    /\ pc = "rts_loop"
    /\ ~(Remaining(s_minutes, s_elapsed) > 0)
    /\ log' = LogSession(log, session_type, s_minutes, s_elapsed, TRUE)
    /\ Return(TRUE)
    /\ Restore
    /\ UNCHANGED <<config, caller, session_type, minutes, elapsed, interrupted,
                   actual_minutes, rt_choice, depth, s_minutes, s_elapsed, cycle_vars,
                   call_len, stops, runs, stop_times, env_vars>>

TimerStep ==
    \/ RtTick \/ RtStop \/ RtComplete
    \/ RtResume \/ RtRestart \/ RtAbandon
    \/ RtsTick \/ RtsStop \/ RtsComplete
    \/ RtsSave \/ RtsStopped \/ RtsStopAgain \/ RtStopAgain

----------------------------------------------------------------------------
(* run_pomodoro_cycle *)

\* a stored configuration with one-minute sessions
DEFAULT_CONFIG ==
    [focus_minutes |-> 1, short_break_minutes |-> 1, long_break_minutes |-> 1,
     sessions_before_long_break |-> MaxEvery]


\* the answers a user gives to a prompt; "" is also what input_prompt returns
\* on end of input or on Ctrl+C at the prompt
Answers == {"y", "Y", "n", ""}

\* str.lower() on the answers above
Lower(s) == CASE s = "Y" -> "y" [] s = "N" -> "n" [] s = "Q" -> "q" [] OTHER -> s

\* Python's a % b for b # 0: the result has the sign of b
PyMod(a, b) == IF b > 0 THEN a % b ELSE 0 - ((0 - a) % (0 - b))

\* `session_count > 0 and session_count % long_break_every == 0`
LongBreakDue(count, every) == count > 0 /\ PyMod(count, every) = 0

\* a prompt whose default (the empty answer) is yes
SaysYesOrEmpty(c) == Lower(c) \in {"y", ""}

\* `choice.lower() == "y"` of the two break prompts
SaysYes(c) == Lower(c) = "y"

\* top of the while loop: decide the next session
CycleDecide ==
    /\ pc = "cycle_top"
    /\ IF session_count > 0 /\ long_break_every = 0
       THEN pc' = "ZeroDivisionError"            \* unhandled: the program ends
       ELSE IF LongBreakDue(session_count, long_break_every)
            THEN pc' = "long_prompt"
            ELSE pc' = "focus_prompt"
    /\ UNCHANGED <<log, config, caller, timer_vars, result, cycle_vars, call_len,
                   focus_done, reset_len, stops, runs, stop_times, env_vars, sig_vars>>

\* "Start long break? [y/n]": yes runs the long-break timer, anything else
\* resets the counter and continues
LongPrompt ==
    /\ pc = "long_prompt"
    /\ \E c \in Answers :
        /\ choice' = c
        /\ IF SaysYes(c)
           THEN /\ runs < MaxRuns
                /\ CallTimer("cycle_long", "long", config.long_break_minutes)
                /\ UNCHANGED <<session_count, focus_done, reset_len>>
           ELSE /\ session_count' = 0
                /\ focus_done' = 0
                /\ reset_len' = Len(log)
                /\ pc' = "cycle_top"
                /\ UNCHANGED <<caller, timer_vars, result, call_len, runs, sig_vars>>
    /\ UNCHANGED <<log, config, long_break_every, stops, stop_times, env_vars>>

\* a long-break return that forgets to reset the counter
LongReturnKeepsCount ==
    /\ pc = "returned"
    /\ caller = "cycle_long"
    /\ focus_done' = 0
    /\ reset_len' = Len(log)
    /\ pc' = "cycle_top"
    /\ UNCHANGED <<log, config, caller, timer_vars, result, cycle_vars,
                   call_len, stops, runs, stop_times, env_vars, sig_vars>>

\* the long-break timer has returned: reset the counter, continue
LongReturn ==
    /\ pc = "returned"
    /\ caller = "cycle_long"
    /\ session_count' = 0
    /\ focus_done' = 0
    /\ reset_len' = Len(log)
    /\ pc' = "cycle_top"
    /\ UNCHANGED <<log, config, caller, timer_vars, result, long_break_every, choice,
                   call_len, stops, runs, stop_times, env_vars, sig_vars>>

\* "What are you working on?", then run_timer("focus", config["focus_minutes"])
FocusStart ==
    /\ pc = "focus_prompt"
    /\ runs < MaxRuns
    /\ CallTimer("cycle_focus", "focus", config.focus_minutes)
    /\ UNCHANGED <<log, config, cycle_vars, focus_done, reset_len, stops, stop_times, env_vars>>

\* a focus return that counts the session whatever run_timer returned
FocusReturnAlwaysCounts ==
    /\ pc = "returned"
    /\ caller = "cycle_focus"
    /\ session_count' = session_count + 1
    /\ pc' = IF result = "True" THEN "short_prompt" ELSE "interrupted_prompt"
    /\ UNCHANGED <<log, config, caller, timer_vars, result, long_break_every, choice,
                   call_len, focus_done, reset_len, stops, runs, stop_times, env_vars, sig_vars>>

\* the focus timer has returned: count it when completed and offer the short
\* break, otherwise ask whether to continue the cycle
FocusReturn ==
    /\ pc = "returned"
    /\ caller = "cycle_focus"
    /\ IF result = "True"
       THEN /\ session_count' = session_count + 1
            /\ pc' = "short_prompt"
       ELSE /\ session_count' = session_count
            /\ pc' = "interrupted_prompt"
    /\ UNCHANGED <<log, config, caller, timer_vars, result, long_break_every, choice,
                   call_len, focus_done, reset_len, stops, runs, stop_times, env_vars, sig_vars>>

\* "Start a short break? [y/n]"
ShortPrompt ==
    /\ pc = "short_prompt"
    /\ \E c \in Answers :
        /\ choice' = c
        /\ IF SaysYes(c)
           THEN /\ runs < MaxRuns
                /\ CallTimer("cycle_short", "short", config.short_break_minutes)
           ELSE /\ pc' = "continue_prompt"
                /\ UNCHANGED <<caller, timer_vars, result, call_len, runs, sig_vars>>
    /\ UNCHANGED <<log, config, session_count, long_break_every, focus_done, reset_len, stops,
                   stop_times, env_vars>>

\* the short-break timer has returned
ShortReturn ==
    /\ pc = "returned"
    /\ caller = "cycle_short"
    /\ pc' = "continue_prompt"
    /\ UNCHANGED <<log, config, caller, timer_vars, result, cycle_vars, call_len,
                   focus_done, reset_len, stops, runs, stop_times, env_vars, sig_vars>>

\* "Continue with next focus session? [y/n/q]": n, q and the empty answer leave
ContinuePrompt ==
    /\ pc = "continue_prompt"
    /\ \E c \in Answers :
        /\ choice' = c
        /\ pc' = IF Lower(c) \in {"n", "q", ""} THEN "done" ELSE "cycle_top"
    /\ UNCHANGED <<log, config, caller, timer_vars, result, session_count,
                   long_break_every, call_len, focus_done, reset_len, stops, runs, stop_times, env_vars, sig_vars>>

\* "Continue Pomodoro cycle? [y/n]" after an interrupted focus session
InterruptedPrompt ==
    /\ pc = "interrupted_prompt"
    /\ \E c \in Answers :
        /\ choice' = c
        /\ pc' = IF Lower(c) # "y" THEN "done" ELSE "cycle_top"
    /\ UNCHANGED <<log, config, caller, timer_vars, result, session_count,
                   long_break_every, call_len, focus_done, reset_len, stops, runs, stop_times, env_vars, sig_vars>>

CycleStep ==
    \/ CycleDecide \/ LongPrompt \/ LongReturn \/ FocusStart \/ FocusReturn
    \/ ShortPrompt \/ ShortReturn \/ ContinuePrompt \/ InterruptedPrompt

\* the instants of a countdown at which the user of a cycle run may press
\* Ctrl+C: part way, and with 7 and 6 seconds of a minute left
CycleStopTimes == {20, 53, 54}

\* run_pomodoro_cycle is entered: config = load_config(), session_count = 0,
\* long_break_every = config["sessions_before_long_break"]
InitCycle ==
    /\ log = <<>>
    /\ \E n \in (0 - 1)..MaxEvery :
         config = [DEFAULT_CONFIG EXCEPT !.sessions_before_long_break = n]
    /\ pc = "cycle_top"
    /\ caller = "main"
    /\ session_type = "focus"
    /\ minutes = 0
    /\ elapsed = 0
    /\ interrupted = FALSE
    /\ actual_minutes = 0
    /\ rt_choice = "none"
    /\ depth = 0
    /\ s_minutes = 0
    /\ s_elapsed = 0
    /\ result = "none"
    /\ session_count = 0
    /\ long_break_every = config.sessions_before_long_break
    /\ choice = ""
    /\ call_len = 0
    /\ focus_done = 0
    /\ reset_len = Len(log)
    /\ stops = 0
    /\ runs = 0
    /\ stop_times = CycleStopTimes
    /\ now = StartClock
    /\ stats = <<>>
    /\ edits = 0
    /\ todays = [streak |-> now.date, week |-> now.date]
    /\ handler = DefaultHandler
    /\ original_handler = DefaultHandler

SpecCycle == InitCycle /\ [][CycleStep \/ TimerStep]_vars

----------------------------------------------------------------------------
(* One start operation, called with any kind and any stored duration *)

AllSeconds == 0..(MaxMinutes * 60)

\* a log that already holds one record of an earlier completed focus session
EarlierLog ==
    <<[type |-> "focus", planned_minutes |-> Minute, actual_minutes |-> Minute,
       completed |-> TRUE, started_at |-> StartClock]>>

InitTimer ==
    /\ log \in {<<>>, EarlierLog}
    /\ config = DEFAULT_CONFIG
    /\ pc = "rt_loop"
    /\ caller = "main"
    /\ session_type \in SESSION_TYPES
    /\ minutes \in (0 - 1)..MaxMinutes
    /\ elapsed = 0
    /\ interrupted = FALSE
    /\ actual_minutes = 0
    /\ rt_choice = "none"
    /\ depth = 0
    /\ s_minutes = 0
    /\ s_elapsed = 0
    /\ result = "none"
    /\ session_count = 0
    /\ long_break_every = 0
    /\ choice = ""
    /\ call_len = Len(log)
    /\ focus_done = 0
    /\ reset_len = Len(log)
    /\ stops = 0
    /\ runs = 1
    /\ stop_times = AllSeconds
    /\ now = StartClock
    /\ stats = <<>>
    /\ edits = 0
    /\ todays = [streak |-> now.date, week |-> now.date]
    /\ handler = "_handler"
    /\ original_handler = DefaultHandler

SpecTimer == InitTimer /\ [][TimerStep]_vars

\* the clock keeps advancing and the interpreter keeps executing the loop
SpecTimerLive == SpecTimer /\ WF_vars(RtTick) /\ WF_vars(RtComplete)

----------------------------------------------------------------------------
(* Properties of the start operation *)

Returned == pc = "returned"
Appended == Len(log) - call_len
LastRecord == log[Len(log)]
Resumed == rt_choice = "1"
Abs(x) == IF x < 0 THEN 0 - x ELSE x

\* C1: every start operation that returns has appended exactly one record
\* to the session log between its call and its return.
C1_ExactlyOneRecord == Returned => Appended = 1

\* C2: the record persisted for an interrupted and resumed session has the
\* originally planned duration and an actual duration equal, within one
\* polling interval, to the sum of the elapsed times of its segments.
C2_ResumedRecordIsSum ==
    (Returned /\ Resumed /\ Appended > 0) =>
        /\ LastRecord.planned_minutes = TotalSeconds(minutes)
        /\ Abs(LastRecord.actual_minutes - (actual_minutes + s_elapsed)) <= Second

\* C3: a resumed session ends completed (return value, and the completed
\* field of any record written) only if planned minus the summed elapsed
\* time has reached zero within one polling interval and the last segment
\* was the resumed countdown running to its end.
C3_CompletedOnlyAtZero ==
    (Returned /\ Resumed /\ (result = "True" \/ (Appended > 0 /\ LastRecord.completed))) =>
        /\ TotalSeconds(minutes) - (actual_minutes + s_elapsed) <= Second
        /\ s_minutes > 0
        /\ ~(Remaining(s_minutes, s_elapsed) > 0)

\* C4: a run with a positive planned duration during which no stop signal
\* is delivered eventually returns True, having appended one completed
\* record whose actual duration is at least the planned duration and at
\* most one polling interval (one second) more.
C4_UninterruptedCompletes ==
    (minutes > 0 /\ [](stops = 0)) =>
        <>(/\ Returned
           /\ result = "True"
           /\ Appended = 1
           /\ LastRecord.completed
           /\ LastRecord.planned_minutes = TotalSeconds(minutes)
           /\ LastRecord.actual_minutes >= LastRecord.planned_minutes
           /\ LastRecord.actual_minutes <= LastRecord.planned_minutes + Second)
C4_Witness ==
    Returned /\ stops = 0 /\ minutes > 0 /\ result = "True" /\ Appended = 1

\* C5: choosing Restart at the prompt leaves the session log unchanged and
\* re-enters the countdown with elapsed time zero and the same kind and
\* planned duration, however many times in a row it is chosen.
C5_RestartDiscards ==
    [][(pc = "rt_prompt" /\ pc' = "rt_loop") =>
         /\ log' = log
         /\ elapsed' = 0
         /\ interrupted' = FALSE
         /\ minutes' = minutes
         /\ session_type' = session_type
         /\ Remaining(TotalSeconds(minutes'), elapsed') = TotalSeconds(minutes)]_vars
C5_Witness == depth >= 2 /\ pc = "rt_loop" /\ elapsed > 0 /\ Appended = 0

\* C6: answering the prompt with anything but Resume or Restart appends one
\* record with completed false, the planned duration of the call and, up to
\* the two-decimal rounding of the store, the time elapsed between the start
\* of the segment and the stop signal; the start operation returns False
\* without counting down any further.
C6_AbandonSavesPartial ==
    (Returned /\ interrupted /\ rt_choice \notin {"1", "2", "none"}) =>
        /\ result = "False"
        /\ Appended = 1
        /\ LastRecord.type = session_type
        /\ LastRecord.completed = FALSE
        /\ LastRecord.planned_minutes = TotalSeconds(minutes)
        /\ 2 * Abs(LastRecord.actual_minutes - elapsed) <= Hundredth
        /\ elapsed = actual_minutes
        /\ s_elapsed = 0
C6_Witness ==
    /\ Returned /\ interrupted /\ rt_choice = "" /\ elapsed = 20 * Second
    /\ depth = 0 /\ result = "False" /\ Appended = 1

----------------------------------------------------------------------------
(* Properties of the cycle controller *)

TimerPcs == {"rt_loop", "rt_prompt", "rts_loop", "rts_except", "rts_enter"}
BreakPrompts == {"short_prompt", "long_prompt"}
HasRecord(type) == \E i \in 1..Len(log) : log[i].type = type

\* C7: when a completed focus session brings the counter to
\* N = sessions_before_long_break, no short break is proposed for it (the
\* long break is proposed instead); a short break is proposed only for the
\* other completed focus sessions.
C7_NthFocusGetsNoShortBreak ==
    (long_break_every >= 1 /\ pc = "short_prompt") => session_count # long_break_every

\* C8: whenever a long break is offered, exactly N focus sessions have
\* completed since the previous offer (or the start of the cycle), and
\* whenever the next focus session is about to start the counter equals the
\* number of focus sessions completed since that offer: zero right after an
\* offer, whether it was accepted, declined or its timer interrupted.
C8_CounterResetsAfterLongBreak ==
    long_break_every >= 1 =>
        /\ pc = "long_prompt" => focus_done = long_break_every
        /\ pc = "focus_prompt" =>
             (session_count = focus_done /\ session_count < long_break_every)
        /\ (pc = "cycle_top" /\ caller = "cycle_long") => session_count = 0
C8_Witness ==
    /\ long_break_every >= 1
    /\ pc = "long_prompt"
    /\ HasRecord("long")
    /\ focus_done = long_break_every

\* C9: from the return of a focus session that was not completed until the
\* next timer is started, no step changes the completed-focus counter and no
\* step offers a long break.
C9_InterruptedFocusNotCounted ==
    [][(long_break_every >= 1 /\ caller = "cycle_focus" /\ result = "False") =>
         (session_count' = session_count /\ pc' # "long_prompt")]_vars
C9_Witness ==
    /\ long_break_every >= 1
    /\ pc = "focus_prompt"
    /\ caller = "cycle_focus"
    /\ result = "False"
    /\ session_count >= 1

\* C10: a short-break or long-break timer is started only by the step that
\* answers the corresponding prompt with yes; any other answer to a break
\* prompt starts no timer and appends no record.
C10_BreaksOnlyOnYes ==
    [][/\ (pc \notin TimerPcs /\ pc' \in TimerPcs /\ session_type' \in {"short", "long"}) =>
           /\ pc \in BreakPrompts
           /\ choice' \in {"y", "Y"}
           /\ session_type' = (IF pc = "short_prompt" THEN "short" ELSE "long")
       /\ (pc \in BreakPrompts /\ choice' \notin {"y", "Y"}) =>
           (pc' \notin TimerPcs /\ log' = log)
       /\ (Len(log') > Len(log) /\ log'[Len(log')].type \in {"short", "long"}) =>
           (pc \in TimerPcs /\ caller \in {"cycle_short", "cycle_long"}
            /\ choice \in {"y", "Y"})]_vars
C10_Witness ==
    /\ pc = "continue_prompt"
    /\ HasRecord("short")
    /\ caller = "cycle_focus"
    /\ result = "True"
    /\ choice = ""

----------------------------------------------------------------------------
(* compute_stats *)

\* s["started_at"][:10] and int(s["started_at"][11:13])
DateOf(s) == s.started_at.date
HourOf(s) == s.started_at.hour

\* the None of best_day and first_session_date
None == 0

\* the number of iterations of `for _ in range(365)` and of `for i in range(7)`
StreakCap == 365
WeekDays == 7

IsFocus(s) == s.type = "focus"
IsCompleted(s) == s.completed

\* the list of all sessions, breaks included
AllSessions(sessions) == sessions

\* [s for s in sessions if s["type"] == "focus"]
FocusSessions(sessions) == SelectSeq(sessions, IsFocus)
\* [s for s in focus_sessions if s["completed"]]
CompletedFocus(focus_sessions) == SelectSeq(focus_sessions, IsCompleted)

\* len(completed_focus) / len(focus_sessions) * 100 with no condition
CompletionRateUnguarded(completed, total) == [num |-> 100 * completed, den |-> total]

\* len(completed_focus) / len(focus_sessions) * 100 if focus_sessions else 0,
\* kept as the exact fraction num / den
CompletionRate(completed, total) ==
    IF total > 0 THEN [num |-> 100 * completed, den |-> total]
    ELSE [num |-> 0, den |-> 1]

\* the default value of the daily dictionary
NewDay == [sessions |-> 0, minutes |-> 0, completed |-> 0]
\* the default value of the hourly dictionary
NewHour == [sessions |-> 0, minutes |-> 0]

\* d[k] of a defaultdict
Get(dict, k, default) == IF k \in DOMAIN dict THEN dict[k] ELSE default
\* d[k] = v
Put(dict, k, v) == [x \in DOMAIN dict \cup {k} |-> IF x = k THEN v ELSE dict[x]]

\* the body of the loop `for s in focus_sessions` that fills daily
DailyBody(focus_sessions, st, i) ==
    LET s == focus_sessions[i]
        old == Get(st.daily, DateOf(s), NewDay)
        new == [sessions |-> old.sessions + 1,
                minutes |-> old.minutes + s.actual_minutes,
                completed |-> old.completed + (IF s.completed THEN 1 ELSE 0)]
    IN [st EXCEPT !.daily = Put(@, DateOf(s), new)]

\* the body of the loop `for s in focus_sessions` that fills hourly
HourlyBody(focus_sessions, st, i) ==
    LET s == focus_sessions[i]
        old == Get(st.hourly, HourOf(s), NewHour)
        new == [sessions |-> old.sessions + 1,
                minutes |-> old.minutes + s.actual_minutes]
    IN [st EXCEPT !.hourly = Put(@, HourOf(s), new)]

\* sorted(keys): the key with i - 1 keys below it comes i-th
Sorted(keys) ==
    LET rank == [k \in keys |-> Cardinality({x \in keys : x < k}) + 1]
    IN [i \in 1..Cardinality(keys) |-> CHOOSE k \in keys : rank[k] = i]

Max(a, b) == IF a >= b THEN a ELSE b

\* the body of `for i, day in enumerate(sorted_days)` with the mistake of
\* never starting the streak over at a gap between two days of the log
BestStreakBodyNoGap(sorted_days, daily, st, i) ==
    IF daily[sorted_days[i]].completed > 0
    THEN [st EXCEPT !.streak = @ + 1, !.best_streak = Max(@, st.streak + 1)]
    ELSE [st EXCEPT !.streak = 0]

\* the body of `for i, day in enumerate(sorted_days)` with the mistake of
\* keeping the running streak, not its maximum, as best_streak
BestStreakBodyKeepsLast(sorted_days, daily, st, i) ==
    LET day == sorted_days[i]
    IN IF daily[day].completed > 0
       THEN LET streak == IF i = 1 THEN 1
                          ELSE IF sorted_days[i - 1] = MinusOneDay(day)
                               THEN st.streak + 1 ELSE 1
            IN [st EXCEPT !.streak = streak, !.best_streak = streak]
       ELSE [st EXCEPT !.streak = 0, !.best_streak = 0]

\* the body of `for i, day in enumerate(sorted_days)`; i counts from 1 here
BestStreakBody(sorted_days, daily, st, i) ==
    LET day == sorted_days[i]
    IN IF daily[day].completed > 0
       THEN LET streak == IF i = 1 THEN 1
                          ELSE IF sorted_days[i - 1] = MinusOneDay(day)
                               THEN st.streak + 1 ELSE 1
            IN [st EXCEPT !.streak = streak, !.best_streak = Max(@, streak)]
       ELSE [st EXCEPT !.streak = 0]

\* the body of `for _ in range(365)` with the mistake of going on to the day
\* before when a day has no completed session
CurrentStreakBodySkips(daily, st, i) ==
    IF st.check_date \in DOMAIN daily /\ daily[st.check_date].completed > 0
    THEN [st EXCEPT !.current_streak = @ + 1, !.check_date = MinusOneDay(@)]
    ELSE [st EXCEPT !.check_date = MinusOneDay(@)]

\* the body of `for _ in range(365)`
CurrentStreakBody(daily, st, i) ==
    IF st.check_date \in DOMAIN daily /\ daily[st.check_date].completed > 0
    THEN [st EXCEPT !.current_streak = @ + 1, !.check_date = MinusOneDay(@)]
    ELSE [st EXCEPT !.left = TRUE]

\* one day more than the week
WeekSpanLong == WeekDays + 1
\* the number of days the week totals cover
WeekSpan == WeekDays

\* the body of `for i in range(7)`
WeekBody(daily, today, st, i) ==
    LET d == MinusDays(today, i)
    IN IF d \in DOMAIN daily
       THEN [st EXCEPT !.week_minutes = @ + daily[d].minutes,
                       !.week_sessions = @ + daily[d].sessions]
       ELSE st

\* the body of the generator of sum(s["actual_minutes"] for s in seq)
SumBody(seq, st, i) == [st EXCEPT !.sum = @ + seq[i].actual_minutes]

\* the body of the loop named `loop`; env holds the values the loop reads
LoopBody(loop, env, st, i) ==
    CASE loop = "sum" -> SumBody(env.seq, st, i)
      [] loop = "daily" -> DailyBody(env.focus_sessions, st, i)
      [] loop = "hourly" -> HourlyBody(env.focus_sessions, st, i)
      [] loop = "best_streak" -> BestStreakBody(env.sorted_days, env.daily, st, i)
      [] loop = "current_streak" -> CurrentStreakBody(env.daily, st, i)
      [] loop = "week" -> WeekBody(env.daily, env.today, st, i)

\* A loop of the source, run by halves: the iterations first, ..., first + n - 1
\* of the loop named `loop`, started with the loop variables `state`.
\* state.left is set by a break statement: the iterations after it do nothing.
RECURSIVE For(_, _, _, _, _)
For(loop, env, state, first, n) ==
    IF n = 0 \/ state.left THEN state
    ELSE IF n = 1 THEN LoopBody(loop, env, state, first)
    ELSE For(loop, env, For(loop, env, state, first, n \div 2),
             first + n \div 2, n - n \div 2)

\* sum(s["actual_minutes"] for s in seq)
SumMinutes(seq) ==
    For("sum", [seq |-> seq], [left |-> FALSE, sum |-> 0], 1, Len(seq)).sum

\* max(daily.items(), key=minutes): the first day, in the order the days
\* entered the dictionary, with the most minutes
BestDay(focus_sessions, daily) ==
    IF focus_sessions = <<>> THEN None
    ELSE LET Minutes(j) == daily[DateOf(focus_sessions[j])].minutes
             i == CHOOSE i \in 1..Len(focus_sessions) :
                      /\ \A j \in 1..Len(focus_sessions) : Minutes(j) <= Minutes(i)
                      /\ \A j \in 1..(i - 1) : Minutes(j) < Minutes(i)
         IN DateOf(focus_sessions[i])

\* the dictionary compute_stats builds after its first two lines; today_streak
\* and today_week are the values of date.today() in the loop of the current
\* streak and in the loop of the week totals
FullStats(sessions, today_streak, today_week) ==
    LET focus_sessions == FocusSessions(sessions)
        completed_focus == CompletedFocus(focus_sessions)
        daily == For("daily", [focus_sessions |-> focus_sessions],
                     [left |-> FALSE, daily |-> <<>>], 1, Len(focus_sessions)).daily
        hourly == For("hourly", [focus_sessions |-> focus_sessions],
                      [left |-> FALSE, hourly |-> <<>>], 1, Len(focus_sessions)).hourly
        sorted_days == Sorted(DOMAIN daily)
        streaks == For("best_streak", [sorted_days |-> sorted_days, daily |-> daily],
                       [left |-> FALSE, streak |-> 0, best_streak |-> 0],
                       1, Len(sorted_days))
        current == For("current_streak", [daily |-> daily],
                       [left |-> FALSE, current_streak |-> 0, check_date |-> today_streak],
                       0, StreakCap)
        week == For("week", [daily |-> daily, today |-> today_week],
                    [left |-> FALSE, week_minutes |-> 0, week_sessions |-> 0],
                    0, WeekSpan)
    IN [total_focus_minutes |-> SumMinutes(focus_sessions),
        total_completed_minutes |-> SumMinutes(completed_focus),
        total_focus_sessions |-> Len(focus_sessions),
        completed_focus_sessions |-> Len(completed_focus),
        completion_rate |-> CompletionRate(Len(completed_focus), Len(focus_sessions)),
        current_streak |-> current.current_streak,
        best_streak |-> streaks.best_streak,
        daily |-> daily,
        hourly |-> hourly,
        best_day |-> BestDay(focus_sessions, daily),
        week_minutes |-> week.week_minutes,
        week_sessions |-> week.week_sessions,
        first_session_date |->
            IF sessions # <<>> THEN DateOf(sessions[1]) ELSE None]

\* compute_stats without its first two lines
ComputeStatsNoEarlyReturn(sessions, today_streak, today_week) ==
    FullStats(sessions, today_streak, today_week)

\* compute_stats(sessions) when date.today() returns today_streak at line 409
\* and today_week at line 425; {} is the function with no keys
ComputeStats(sessions, today_streak, today_week) ==
    IF sessions = <<>> THEN <<>> ELSE FullStats(sessions, today_streak, today_week)

\* the wall clock a moment after `clock`: the same hour, or the next day when
\* midnight is near
ClockAfter(clock) ==
    {clock} \cup (IF clock.hour = 23
                  THEN {[date |-> PlusOneDay(clock.date), hour |-> 0]} ELSE {})

\* screen_stats: load the log and compute the statistics, reading the clock
\* once in each loop that needs today; an empty result is shown as "No
\* sessions logged yet"
ScreenStats ==
    /\ pc = "idle"
    /\ \E later \in ClockAfter(now) :
         /\ now' = later
         /\ todays' = [streak |-> now.date, week |-> later.date]
         /\ stats' = ComputeStats(log, now.date, later.date)
    /\ pc' = IF stats' = <<>> THEN "stats_none" ELSE "stats_screen"
    /\ UNCHANGED <<log, config, caller, timer_vars, result, cycle_vars, call_len,
                   focus_done, reset_len, stops, runs, stop_times, edits,
                   sig_vars>>

\* Enter on the dashboard: screen_stats returns
StatsBack ==
    /\ pc \in {"stats_none", "stats_screen"}
    /\ stats' = <<>>
    /\ todays' = [streak |-> now.date, week |-> now.date]
    /\ pc' = "idle"
    /\ UNCHANGED <<log, config, caller, timer_vars, result, cycle_vars, call_len,
                   focus_done, reset_len, stops, runs, stop_times, now, edits,
                   sig_vars>>

StatsStep == ScreenStats \/ StatsBack

----------------------------------------------------------------------------
(* The dashboard opened on any log of a few sessions *)

MaxLogLen == 3       \* records in a log drawn for the dashboard

\* the days from a week before today to tomorrow (a wrong clock)
StatsDates == DateRange(MinusDays(Today, WeekDays), WeekDays + 2)

CompletedFocusOn(d) ==
    [type |-> "focus", planned_minutes |-> Minute, actual_minutes |-> Minute,
     completed |-> TRUE, started_at |-> [date |-> d, hour |-> 9]]
StoppedFocusOn(d) ==
    [type |-> "focus", planned_minutes |-> Minute, actual_minutes |-> 7 * Hundredth,
     completed |-> FALSE, started_at |-> [date |-> d, hour |-> 14]]
ShortBreakOn(d) ==
    [type |-> "short", planned_minutes |-> Minute, actual_minutes |-> Minute,
     completed |-> TRUE, started_at |-> [date |-> d, hour |-> 9]]

StatsRecords ==
    UNION {{CompletedFocusOn(d), StoppedFocusOn(d), ShortBreakOn(d)} : d \in StatsDates}

\* log_session appends at datetime.now(): the records are in the order of time
InTimeOrder(l) ==
    \A i \in 1..(Len(l) - 1) :
        \/ DateOf(l[i]) < DateOf(l[i + 1])
        \/ DateOf(l[i]) = DateOf(l[i + 1]) /\ HourOf(l[i]) <= HourOf(l[i + 1])

\* the logs of at most max_len of these records
LogsUpTo(max_len) ==
    {l \in UNION {[1..n -> StatsRecords] : n \in 0..max_len} : InTimeOrder(l)}

\* the last n days up to the day `last`, in order
LastDays(last, n) ==
    Sorted({iso \in {Iso(y, m, d) : y \in (YearOf(last) - 1 - n \div 365)..YearOf(last),
                                    m \in 1..12, d \in 1..31} :
                /\ DayOf(iso) <= DaysInMonth(YearOf(iso), MonthOf(iso))
                /\ Ordinal(last) - Ordinal(iso) \in 0..(n - 1)})

\* a completed focus session on each of the last n days
LongLog(n) ==
    LET days == LastDays(Today, n) IN [i \in 1..n |-> CompletedFocusOn(days[i])]

\* the dashboard is opened today or was opened late yesterday
InitStats ==
    /\ log \in LogsUpTo(MaxLogLen) \cup {LongLog(StreakCap + 2)}
    /\ config = DEFAULT_CONFIG
    /\ pc = "idle"
    /\ caller = "main"
    /\ session_type = "focus"
    /\ minutes = 0
    /\ elapsed = 0
    /\ interrupted = FALSE
    /\ actual_minutes = 0
    /\ rt_choice = "none"
    /\ depth = 0
    /\ s_minutes = 0
    /\ s_elapsed = 0
    /\ result = "none"
    /\ session_count = 0
    /\ long_break_every = 0
    /\ choice = ""
    /\ call_len = Len(log)
    /\ focus_done = 0
    /\ reset_len = Len(log)
    /\ stops = 0
    /\ runs = 0
    /\ stop_times = {}
    /\ now \in {StartClock, [date |-> MinusOneDay(Today), hour |-> 23]}
    /\ stats = <<>>
    /\ edits = 0
    /\ todays = [streak |-> now.date, week |-> now.date]
    /\ handler = DefaultHandler
    /\ original_handler = DefaultHandler

SpecStats == InitStats /\ [][StatsStep]_vars

----------------------------------------------------------------------------
(* Properties of the statistics *)

\* the days of the log with at least one completed focus session
ActiveDays(l) ==
    {Ordinal(DateOf(l[i])) : i \in {j \in 1..Len(l) : l[j].type = "focus" /\ l[j].completed}}

\* the number of consecutive days of `days` that end with day o
RunEndingAt(days, o) ==
    CHOOSE n \in 0..Cardinality(days) :
        (\A k \in 0..(n - 1) : o - k \in days) /\ o - n \notin days

\* the length of the longest run of consecutive days in `days`
LongestRun(days) ==
    IF days = {} THEN 0
    ELSE LET runs_of_days == {RunEndingAt(days, o) : o \in {e \in days : e + 1 \notin days}}
         IN CHOOSE n \in runs_of_days : \A m \in runs_of_days : m <= n

OnDashboard == pc = "stats_screen"

\* C11: best_streak is the length of the longest run of consecutive calendar
\* dates each of which has at least one completed focus session
C11_BestStreakIsLongestRun ==
    OnDashboard => stats.best_streak = LongestRun(ActiveDays(log))

\* three days with a completed focus session, two of them consecutive
C11_Witness ==
    /\ OnDashboard
    /\ Cardinality(ActiveDays(log)) = 3
    /\ stats.best_streak = 2

Min(a, b) == IF a <= b THEN a ELSE b

\* the day the loop of the current streak started from
StreakDay == Ordinal(todays.streak)
\* the day the loop of the week totals started from
WeekDay == Ordinal(todays.week)

\* C12: current_streak is the number of consecutive dates, counted backward
\* from today, that have a completed focus session, capped at 365; it is 0
\* when today has none
C12_CurrentStreakBackFromToday ==
    OnDashboard =>
        /\ stats.current_streak =
               Min(RunEndingAt(ActiveDays(log), StreakDay), StreakCap)
        /\ StreakDay \notin ActiveDays(log) => stats.current_streak = 0

\* more than 365 consecutive days up to today: the count stops at the cap
C12_Witness ==
    /\ OnDashboard
    /\ RunEndingAt(ActiveDays(log), StreakDay) > StreakCap
    /\ stats.current_streak = StreakCap

\* the focus records of the log started on the days first..last
FocusBetween(l, first, last) ==
    SelectSeq(l, LAMBDA s : s.type = "focus" /\ Ordinal(DateOf(s)) \in first..last)

\* C13: week_minutes and week_sessions are the sums over the focus sessions of
\* the seven dates today-6 .. today; a record of today-7 or of a date after
\* today adds nothing
C13_WeekIsLastSevenDays ==
    OnDashboard =>
        LET week == FocusBetween(log, WeekDay - 6, WeekDay)
        IN /\ stats.week_sessions = Len(week)
           /\ stats.week_minutes = SumMinutes(week)

\* a focus session a week ago, one in the week and one dated tomorrow
C13_Witness ==
    /\ OnDashboard
    /\ Len(FocusBetween(log, WeekDay - 7, WeekDay - 7)) = 1
    /\ Len(FocusBetween(log, WeekDay + 1, WeekDay + 1)) = 1
    /\ stats.week_sessions = 1
    /\ stats.week_minutes > 0

\* C14: completion_rate is 100 * completed focus sessions / focus sessions,
\* and it is 0, with no division by zero, when the log holds only breaks
C14_CompletionRate ==
    OnDashboard =>
        LET focus == SelectSeq(log, LAMBDA s : s.type = "focus")
            completed == SelectSeq(focus, LAMBDA s : s.completed)
            rate == stats.completion_rate
        IN /\ rate.den # 0
           /\ rate.num * Len(focus) = 100 * Len(completed) * rate.den
           /\ Len(focus) = 0 => rate.num = 0

\* the dashboard of a log of breaks only
C14_Witness ==
    /\ OnDashboard
    /\ Len(log) > 0
    /\ \A i \in 1..Len(log) : log[i].type # "focus"
    /\ stats.completion_rate.num = 0

\* the statistics have been asked for
StatsShown == pc \in {"stats_none", "stats_screen"}

\* C15: for an empty log the statistics are the explicit empty result, shown
\* as "no sessions", and nothing fails
C15_EmptyLogEmptyResult ==
    (StatsShown /\ log = <<>>) => (stats = <<>> /\ pc = "stats_none")

C15_Witness == pc = "stats_none" /\ log = <<>> /\ DOMAIN stats = {}

----------------------------------------------------------------------------
(* The program: the main menu and the command line *)

MaxEdits == 1        \* settings stored in the configuration editor

\* what the user types at a prompt for a number: nothing, something that is
\* not a number, or an integer
NumberInputs ==
    {[kind |-> "empty", value |-> 0], [kind |-> "text", value |-> 0]}
    \cup {[kind |-> "int", value |-> v] : v \in (0 - 1)..MaxMinutes}

\* lines 593-598 of screen_focus_session: int(duration) if duration else the
\* configured length; a value <= 0 and a ValueError fall back to the
\* configured length
FocusMinutes(duration, cfg) ==
    IF duration.kind = "int"
    THEN IF duration.value <= 0 THEN cfg.focus_minutes ELSE duration.value
    ELSE cfg.focus_minutes

\* the settings of the editor that the timers and the cycle read
ConfigKeys == {"focus_minutes", "short_break_minutes", "long_break_minutes",
               "sessions_before_long_break"}

\* the instant of a countdown at which the user of the program may press Ctrl+C
ProgramStopTimes == {20}

\* menu choice 1 or the command `start`
ScreenFocusSession ==
    /\ pc = "idle"
    /\ runs < MaxRuns
    /\ \E duration \in NumberInputs :
         CallTimer("main", "focus", FocusMinutes(duration, config))
    /\ UNCHANGED <<log, config, cycle_vars, focus_done, reset_len, stops, stop_times, env_vars>>

\* menu choice 2: run_timer("short", config["short_break_minutes"])
MenuShortBreak ==
    /\ pc = "idle"
    /\ runs < MaxRuns
    /\ CallTimer("main", "short", config.short_break_minutes)
    /\ UNCHANGED <<log, config, cycle_vars, focus_done, reset_len, stops, stop_times, env_vars>>

\* menu choice 3: run_timer("long", config["long_break_minutes"])
MenuLongBreak ==
    /\ pc = "idle"
    /\ runs < MaxRuns
    /\ CallTimer("main", "long", config.long_break_minutes)
    /\ UNCHANGED <<log, config, cycle_vars, focus_done, reset_len, stops, stop_times, env_vars>>

\* the timer started from the menu has returned: back to the menu
MainReturn ==
    /\ pc = "returned"
    /\ caller = "main"
    /\ pc' = "idle"
    /\ UNCHANGED <<log, config, caller, timer_vars, result, cycle_vars, call_len,
                   focus_done, reset_len, stops, runs, stop_times, env_vars, sig_vars>>

\* menu choice 5 or the command `config`: choose a setting and type its new
\* value; int(val) is stored as it is, a ValueError stores nothing
ScreenConfig ==
    /\ pc = "idle"
    /\ edits < MaxEdits
    /\ edits' = edits + 1
    /\ \E key \in ConfigKeys, val \in NumberInputs :
         config' = IF val.kind = "int" THEN [config EXCEPT ![key] = val.value]
                   ELSE config
    /\ UNCHANGED <<log, pc, caller, timer_vars, result, cycle_vars, call_len,
                   focus_done, reset_len, stops, runs, stop_times, now, stats, todays,
                   sig_vars>>

\* the command `cycle`: config = load_config(), session_count = 0
CycleEnter ==
    /\ pc = "idle"
    /\ runs < MaxRuns
    /\ pc' = "cycle_top"
    /\ session_count' = 0
    /\ long_break_every' = config.sessions_before_long_break
    /\ focus_done' = 0
    /\ reset_len' = Len(log)
    /\ UNCHANGED <<log, config, caller, timer_vars, result, choice, call_len,
                   stops, runs, stop_times, env_vars, sig_vars>>

\* run_pomodoro_cycle has left its loop
CycleExit ==
    /\ pc = "done"
    /\ pc' = "idle"
    /\ UNCHANGED <<log, config, caller, timer_vars, result, cycle_vars, call_len,
                   focus_done, reset_len, stops, runs, stop_times, env_vars, sig_vars>>

MenuStep ==
    \/ ScreenFocusSession \/ MenuShortBreak \/ MenuLongBreak \/ MainReturn
    \/ ScreenConfig \/ CycleEnter \/ CycleExit

\* the program is started with the default configuration and no log
Init ==
    /\ log = <<>>
    /\ config = DEFAULT_CONFIG
    /\ pc = "idle"
    /\ caller = "main"
    /\ session_type = "focus"
    /\ minutes = 0
    /\ elapsed = 0
    /\ interrupted = FALSE
    /\ actual_minutes = 0
    /\ rt_choice = "none"
    /\ depth = 0
    /\ s_minutes = 0
    /\ s_elapsed = 0
    /\ result = "none"
    /\ session_count = 0
    /\ long_break_every = 0
    /\ choice = ""
    /\ call_len = 0
    /\ focus_done = 0
    /\ reset_len = Len(log)
    /\ stops = 0
    /\ runs = 0
    /\ stop_times = ProgramStopTimes
    /\ now = StartClock
    /\ stats = <<>>
    /\ edits = 0
    /\ todays = [streak |-> now.date, week |-> now.date]
    /\ handler = DefaultHandler
    /\ original_handler = DefaultHandler

Next == MenuStep \/ StatsStep \/ CycleStep \/ TimerStep

Spec == Init /\ [][Next]_vars

----------------------------------------------------------------------------
(* Properties of the program and of the stop signal *)

IsPrefix(a, b) == Len(a) <= Len(b) /\ \A i \in 1..Len(a) : a[i] = b[i]

\* C16: the log is append-only: at every step the log before the step is a
\* prefix of the log after it
C16_AppendOnly == [][IsPrefix(log, log')]_vars

\* C17: no stored configuration makes a cycle run or a timer run reach an
\* error state
C17_NoConfigurationFails == pc # "ZeroDivisionError"

\* C18: a stop signal delivered while the handler of the engine is installed
\* never leaves the engine as an unhandled TimerInterrupt
C18_StopNeverEscapes == pc # "TimerInterrupt"

\* C19: every record of the log has a planned duration greater than zero
C19_PlannedPositive == \A i \in 1..Len(log) : log[i].planned_minutes > 0

\* a countdown has been ended by a stop signal and the engine has not returned
StoppedCountdown == pc \in {"rt_prompt", "rts_except", "rts_enter"}

\* C20: whenever a countdown is ended by a stop signal, also a resumed one,
\* the choice between Resume, Restart and Abandon is offered before any
\* record is written
C20_StopOffersChoice == StoppedCountdown => (pc = "rt_prompt" /\ Appended = 0)

----------------------------------------------------------------------------
(* Properties of one report *)

\* C21: one report is computed from the log and a single value of today:
\* current_streak and the week totals are those of the same calendar date,
\* also when midnight passes during the computation
C21_SingleToday ==
    OnDashboard => \E today \in {todays.streak, todays.week} :
                       stats = ComputeStats(log, today, today)

\* C23: in every report current_streak is at most best_streak and at most 365
C23_CurrentAtMostBest ==
    OnDashboard =>
        /\ stats.current_streak <= stats.best_streak
        /\ stats.current_streak <= 365

\* a streak that is both the current one and the best one, longer than the cap
C23_Witness ==
    /\ OnDashboard
    /\ stats.best_streak > StreakCap
    /\ stats.current_streak = 365

\* the sum of the numbers vals[lo], ..., vals[hi]
RECURSIVE SumRange(_, _, _)
SumRange(vals, lo, hi) ==
    IF lo > hi THEN 0
    ELSE IF lo = hi THEN vals[lo]
    ELSE SumRange(vals, lo, (lo + hi) \div 2) + SumRange(vals, (lo + hi) \div 2 + 1, hi)

\* the sum of the field of all buckets of a dictionary
BucketTotal(dict, field) ==
    LET keys == Sorted(DOMAIN dict)
        vals == [i \in 1..Len(keys) |-> dict[keys[i]][field]]
    IN SumRange(vals, 1, Len(keys))

\* the indices of the focus records of the log
FocusIndices == {i \in 1..Len(log) : log[i].type = "focus"}

\* C24: the buckets conserve the totals: the sessions of the daily buckets and
\* of the hourly buckets both sum to total_focus_sessions, the completed counts
\* of the daily buckets sum to completed_focus_sessions, every daily bucket has
\* sessions >= 1 and 0 <= completed <= sessions, and a break record is in no
\* bucket
C24_BucketsConserveTotals ==
    OnDashboard =>
        /\ stats.total_focus_sessions = Cardinality(FocusIndices)
        /\ stats.completed_focus_sessions =
               Cardinality({i \in FocusIndices : log[i].completed})
        /\ BucketTotal(stats.daily, "sessions") = stats.total_focus_sessions
        /\ BucketTotal(stats.hourly, "sessions") = stats.total_focus_sessions
        /\ BucketTotal(stats.daily, "completed") = stats.completed_focus_sessions
        /\ \A d \in DOMAIN stats.daily :
               /\ stats.daily[d].sessions >= 1
               /\ 0 <= stats.daily[d].completed
               /\ stats.daily[d].completed <= stats.daily[d].sessions
        /\ DOMAIN stats.daily = {DateOf(log[i]) : i \in FocusIndices}
        /\ DOMAIN stats.hourly = {HourOf(log[i]) : i \in FocusIndices}

\* a break on a day without focus sessions, and a day with a completed and a
\* stopped focus session
C24_Witness ==
    /\ OnDashboard
    /\ \E i \in 1..Len(log) : log[i].type = "short" /\ DateOf(log[i]) \notin DOMAIN stats.daily
    /\ \E d \in DOMAIN stats.daily :
           stats.daily[d].sessions = 2 /\ stats.daily[d].completed = 1

----------------------------------------------------------------------------
(* Properties of the counter of the cycle *)

\* the control points of run_pomodoro_cycle outside a timer run
CyclePcs == {"cycle_top", "long_prompt", "focus_prompt", "short_prompt",
             "continue_prompt", "interrupted_prompt", "done"}

\* the completed focus records appended to the log after its first n records
CompletedFocusSince(n) ==
    Cardinality({i \in (n + 1)..Len(log) : log[i].type = "focus" /\ log[i].completed})

\* C22: during a cycle run session_count equals the number of completed focus
\* records appended to the log since the counter was last reset
C22_CounterMatchesLog ==
    pc \in CyclePcs => session_count = CompletedFocusSince(reset_len)

----------------------------------------------------------------------------
(* Properties of the SIGINT handler *)

\* no countdown is running and none is waiting at its prompt: every
\* run_timer and run_timer_simple frame has returned or has been left by an
\* exception
OutOfTimer == pc \notin TimerPcs

\* C25: whenever a timer run has returned or an exception has propagated out
\* of it, the process-wide SIGINT handler is the handler that was installed
\* before the run began (the default one); _handler is never left installed
C25_HandlerRestored == OutOfTimer => handler = DefaultHandler

====
